---- MODULE Spec2Model ----
(***************************************************************************)
(* PartsRegistry (contracts/piece-aero/src/lib.rs): a Soroban contract     *)
(* that keeps a directory of administrators, OEM and MRO organisations and *)
(* a keyed store of aeronautic parts.  Every contract call is one atomic   *)
(* step on the instance storage; the host has already authenticated the    *)
(* address that each call names as its caller (require_auth).              *)
(***************************************************************************)
EXTENDS Integers, Sequences, FiniteSets, TLC

\* ---------------------------------------------------------------- bounds
\* Largest ledger timestamp the clock reaches.
MaxTime == 1
\* Largest total number of roster entries (OEM roster + MRO roster).
MaxOrgs == 2

\* ---------------------------------------------------------------- inputs
Addresses == {"admin", "oem", "airline"}
\* the addresses an administrator registers as organisations
OrgAddresses == {"admin", "oem"}
Uids == {"CFM56-5B4-123456"}
PartNumbers == {"CFM56-5B4"}
SerialNumbers == {"123456"}
OrgNames == {"Safran"}
CertLists == {<<"EASA.21G.0001">>}
DocNames == {"initial_cert"}
DocHashes == {"H1"}
\* (hours, cycles) readings an update may supply
Readings == {<<0, 0>>, <<2, 1>>}

\* ----------------------------------------------------------------- types
OrgType == {"OEM", "MRO", "Airline", "Lessor", "Distributor"}

PartStatus == {"Active", "InMaintenance", "Retired", "Quarantined"}

Error == {"NotAuthorized", "OrgNotRegistered", "NotAnOEM",
          "PartAlreadyExists", "PartNotFound", "InvalidInput"}

Organization(id, name, org_type, certificates, active) ==
    [id |-> id, name |-> name, org_type |-> org_type,
     certificates |-> certificates, active |-> active]

AeronauticPart(uid, part_number, serial_number, manufacturer, date_of_manufacture, current_owner, status, total_hours, total_cycles, last_updated, document_hashes) ==
    [uid |-> uid, part_number |-> part_number, serial_number |-> serial_number,
     manufacturer |-> manufacturer, date_of_manufacture |-> date_of_manufacture,
     current_owner |-> current_owner, status |-> status,
     total_hours |-> total_hours, total_cycles |-> total_cycles,
     last_updated |-> last_updated, document_hashes |-> document_hashes]

\* Map<K, V>: a function on the set of keys present.
EmptyMap == [k \in {} |-> 0]

MapSet(m, k, v) == [x \in (DOMAIN m) \cup {k} |-> IF x = k THEN v ELSE m[x]]

\* every document map over the modelled names and hashes
DocMaps == UNION {[D -> DocHashes] : D \in SUBSET DocNames}

\* ----------------------------------------------------------------- state
VARIABLES
    has_admins,   \* instance storage has the ADMINS key
    admins,       \* Vec<Address> under ADMINS
    oem_orgs,     \* Vec<Organization> under OEM_ORGS
    mro_orgs,     \* Vec<Organization> under MRO_ORGS
    parts,        \* Map<String, AeronauticPart> under PARTS
    now,          \* env.ledger().timestamp()
    last,         \* the last call: its name, its caller, its uid argument, its result
    out           \* the value inside the Ok(..) that the last call returned

vars == <<has_admins, admins, oem_orgs, mro_orgs, parts, now, last, out>>

registry == <<has_admins, admins, oem_orgs, mro_orgs, parts>>

NoUid == "-"

NoCaller == "-"

\* the value of Ok(()) and of an Err(..)
Unit == <<>>

\* A freshly deployed contract: no key is set, and every read of an unset
\* key yields the empty collection (unwrap_or).
Init ==
    /\ has_admins = FALSE
    /\ admins = <<>>
    /\ oem_orgs = <<>>
    /\ mro_orgs = <<>>
    /\ parts = EmptyMap
    /\ now = 0
    /\ last = [op |-> "deploy", caller |-> NoCaller, uid |-> NoUid, ret |-> "Ok"]
    /\ out = Unit

\* The call `op`, made by `caller` for `uid`, returns `ret`.
Return(op, caller, uid, ret) ==
    /\ last' = [op |-> op, caller |-> caller, uid |-> uid, ret |-> ret]
    /\ out' = Unit

\* The call `op`, made by `caller` for `uid`, returns Ok(value).
ReturnValue(op, caller, uid, value) ==
    /\ last' = [op |-> op, caller |-> caller, uid |-> uid, ret |-> "Ok"]
    /\ out' = value

\* ---------------------------------------------------------- access checks
\* ensure_is_admin reading the OEM_ORGS key instead of ADMINS
ensure_is_admin_ReadsOemRoster(address) ==
    IF \E i \in 1..Len(oem_orgs) : oem_orgs[i].id = address
    THEN "Ok" ELSE "NotAuthorized"

\* ensure_is_admin that lets everyone pass while no admin is stored
ensure_is_admin_OpenBeforeInit(address) ==
    IF ~has_admins \/ \E i \in 1..Len(admins) : admins[i] = address
    THEN "Ok" ELSE "NotAuthorized"

ensure_is_admin(address) ==
    IF \E i \in 1..Len(admins) : admins[i] = address
    THEN "Ok" ELSE "NotAuthorized"

\* ensure_is_oem reading the MRO roster
ensure_is_oem_ScansMro(address) ==
    IF \E i \in 1..Len(mro_orgs) : mro_orgs[i].id = address /\ mro_orgs[i].active
    THEN "Ok" ELSE "NotAnOEM"

ensure_is_oem(address) ==
    IF \E i \in 1..Len(oem_orgs) : oem_orgs[i].id = address /\ oem_orgs[i].active
    THEN "Ok" ELSE "NotAnOEM"

\* ensure_is_mro_or_owner comparing the caller with the manufacturer
ensure_is_mro_or_owner_ChecksManufacturer(address, part_uid) ==
    LET is_mro == \E i \in 1..Len(mro_orgs) :
                      mro_orgs[i].id = address /\ mro_orgs[i].active
    IN  IF ~is_mro
        THEN IF part_uid \in DOMAIN parts
             THEN IF parts[part_uid].manufacturer # address
                  THEN "NotAuthorized" ELSE "Ok"
             ELSE "PartNotFound"
        ELSE "Ok"

\* ensure_is_mro_or_owner answering NotAuthorized for a missing part
ensure_is_mro_or_owner_MissingIsDenied(address, part_uid) ==
    LET is_mro == \E i \in 1..Len(mro_orgs) :
                      mro_orgs[i].id = address /\ mro_orgs[i].active
    IN  IF ~is_mro
        THEN IF part_uid \in DOMAIN parts
             THEN IF parts[part_uid].current_owner # address
                  THEN "NotAuthorized" ELSE "Ok"
             ELSE "NotAuthorized"
        ELSE "Ok"

ensure_is_mro_or_owner(address, part_uid) ==
    LET is_mro == \E i \in 1..Len(mro_orgs) :
                      mro_orgs[i].id = address /\ mro_orgs[i].active
    IN  IF ~is_mro
        THEN IF part_uid \in DOMAIN parts
             THEN IF parts[part_uid].current_owner # address
                  THEN "NotAuthorized" ELSE "Ok"
             ELSE "PartNotFound"
        ELSE "Ok"

\* ensure_can_add_document without the OEM scan of lines 434-441
ensure_can_add_document_NoOemBranch(address, part_uid) ==
    IF \E i \in 1..Len(mro_orgs) : mro_orgs[i].id = address /\ mro_orgs[i].active
    THEN "Ok"
    ELSE IF part_uid \in DOMAIN parts
    THEN IF parts[part_uid].current_owner = address THEN "Ok" ELSE "NotAuthorized"
    ELSE "PartNotFound"

ensure_can_add_document(address, part_uid) ==
    IF \E i \in 1..Len(mro_orgs) : mro_orgs[i].id = address /\ mro_orgs[i].active
    THEN "Ok"
    ELSE IF \E i \in 1..Len(oem_orgs) : oem_orgs[i].id = address /\ oem_orgs[i].active
    THEN "Ok"
    ELSE IF part_uid \in DOMAIN parts
    THEN IF parts[part_uid].current_owner = address THEN "Ok" ELSE "NotAuthorized"
    ELSE "PartNotFound"

\* -------------------------------------------------------------- operations
\* initialize without the has(&ADMINS) test of lines 84-86
initialize_NoGuard(admin) ==
    /\ has_admins' = TRUE
    /\ admins' = <<admin>>
    /\ oem_orgs' = <<>>
    /\ mro_orgs' = <<>>
    /\ parts' = EmptyMap
    /\ Return("initialize", admin, NoUid, "Ok")
    /\ UNCHANGED now

\* initialize that stores the administrator before it tests has(&ADMINS)
initialize_ReplacesAdmin(admin) ==
    /\ has_admins' = TRUE
    /\ admins' = <<admin>>
    /\ Return("initialize", admin, NoUid, IF has_admins THEN "InvalidInput" ELSE "Ok")
    /\ UNCHANGED <<oem_orgs, mro_orgs, parts, now>>

initialize(admin) ==
    IF has_admins
    THEN /\ Return("initialize", admin, NoUid, "InvalidInput")
         /\ UNCHANGED <<registry, now>>
    ELSE /\ has_admins' = TRUE
         /\ admins' = <<admin>>
         /\ oem_orgs' = <<>>
         /\ mro_orgs' = <<>>
         /\ parts' = EmptyMap
         /\ Return("initialize", admin, NoUid, "Ok")
         /\ UNCHANGED now

\* register_oem that stores the roster before it checks the caller
register_oem_StoresFirst(caller, org_address, name, certificates) ==
    /\ Len(oem_orgs) + Len(mro_orgs) < MaxOrgs
    /\ oem_orgs' = Append(oem_orgs,
                          Organization(org_address, name, "OEM", certificates, TRUE))
    /\ Return("register_oem", caller, NoUid, ensure_is_admin(caller))
    /\ UNCHANGED <<has_admins, admins, mro_orgs, parts, now>>

\* register_oem that stores a roster holding the new entry only
register_oem_ReplacesRoster(caller, org_address, name, certificates) ==
    /\ Len(oem_orgs) + Len(mro_orgs) < MaxOrgs
    /\ IF ensure_is_admin(caller) # "Ok"
       THEN /\ Return("register_oem", caller, NoUid, ensure_is_admin(caller))
            /\ UNCHANGED <<registry, now>>
       ELSE /\ oem_orgs' = <<Organization(org_address, name, "OEM", certificates, TRUE)>>
            /\ Return("register_oem", caller, NoUid, "Ok")
            /\ UNCHANGED <<has_admins, admins, mro_orgs, parts, now>>

register_oem(caller, org_address, name, certificates) ==
    /\ Len(oem_orgs) + Len(mro_orgs) < MaxOrgs
    /\ IF ensure_is_admin(caller) # "Ok"
       THEN /\ Return("register_oem", caller, NoUid, ensure_is_admin(caller))
            /\ UNCHANGED <<registry, now>>
       ELSE /\ oem_orgs' = Append(oem_orgs,
                                  Organization(org_address, name, "OEM", certificates, TRUE))
            /\ Return("register_oem", caller, NoUid, "Ok")
            /\ UNCHANGED <<has_admins, admins, mro_orgs, parts, now>>

\* register_mro that kept OrgType::OEM from the function it was copied from
register_mro_StoresOemKind(caller, org_address, name, certificates) ==
    /\ Len(oem_orgs) + Len(mro_orgs) < MaxOrgs
    /\ IF ensure_is_admin(caller) # "Ok"
       THEN /\ Return("register_mro", caller, NoUid, ensure_is_admin(caller))
            /\ UNCHANGED <<registry, now>>
       ELSE /\ mro_orgs' = Append(mro_orgs,
                                  Organization(org_address, name, "OEM", certificates, TRUE))
            /\ Return("register_mro", caller, NoUid, "Ok")
            /\ UNCHANGED <<has_admins, admins, oem_orgs, parts, now>>

register_mro(caller, org_address, name, certificates) ==
    /\ Len(oem_orgs) + Len(mro_orgs) < MaxOrgs
    /\ IF ensure_is_admin(caller) # "Ok"
       THEN /\ Return("register_mro", caller, NoUid, ensure_is_admin(caller))
            /\ UNCHANGED <<registry, now>>
       ELSE /\ mro_orgs' = Append(mro_orgs,
                                  Organization(org_address, name, "MRO", certificates, TRUE))
            /\ Return("register_mro", caller, NoUid, "Ok")
            /\ UNCHANGED <<has_admins, admins, oem_orgs, parts, now>>

\* create_part without the contains_key test of lines 190-192
create_part_NoDuplicateCheck(manufacturer, uid, part_number, serial_number, document_hashes) ==
    IF ensure_is_oem(manufacturer) # "Ok"
    THEN /\ Return("create_part", manufacturer, uid, ensure_is_oem(manufacturer))
         /\ UNCHANGED <<registry, now>>
    ELSE /\ parts' = MapSet(parts, uid,
                            AeronauticPart(uid, part_number, serial_number, manufacturer,
                                           now, manufacturer, "Active", 0, 0, now,
                                           document_hashes))
         /\ Return("create_part", manufacturer, uid, IF uid \in DOMAIN parts
                                       THEN "PartAlreadyExists" ELSE "Ok")
         /\ UNCHANGED <<has_admins, admins, oem_orgs, mro_orgs, now>>

\* create_part that stores its two string arguments in each other's field
create_part_SwapsNumbers(manufacturer, uid, part_number, serial_number, document_hashes) ==
    IF ensure_is_oem(manufacturer) # "Ok"
    THEN /\ Return("create_part", manufacturer, uid, ensure_is_oem(manufacturer))
         /\ UNCHANGED <<registry, now>>
    ELSE IF uid \in DOMAIN parts
    THEN /\ Return("create_part", manufacturer, uid, "PartAlreadyExists")
         /\ UNCHANGED <<registry, now>>
    ELSE /\ parts' = MapSet(parts, uid,
                            AeronauticPart(uid, serial_number, part_number, manufacturer,
                                           now, manufacturer, "Active", 0, 0, now,
                                           document_hashes))
         /\ Return("create_part", manufacturer, uid, "Ok")
         /\ UNCHANGED <<has_admins, admins, oem_orgs, mro_orgs, now>>

\* create_part that stores the record whether or not the uid is present
create_part_LastWriterWins(manufacturer, uid, part_number, serial_number, document_hashes) ==
    IF ensure_is_oem(manufacturer) # "Ok"
    THEN /\ Return("create_part", manufacturer, uid, ensure_is_oem(manufacturer))
         /\ UNCHANGED <<registry, now>>
    ELSE /\ parts' = MapSet(parts, uid,
                            AeronauticPart(uid, part_number, serial_number, manufacturer,
                                           now, manufacturer, "Active", 0, 0, now,
                                           document_hashes))
         /\ Return("create_part", manufacturer, uid, "Ok")
         /\ UNCHANGED <<has_admins, admins, oem_orgs, mro_orgs, now>>

create_part(manufacturer, uid, part_number, serial_number, document_hashes) ==
    IF ensure_is_oem(manufacturer) # "Ok"
    THEN /\ Return("create_part", manufacturer, uid, ensure_is_oem(manufacturer))
         /\ UNCHANGED <<registry, now>>
    ELSE IF uid \in DOMAIN parts
    THEN /\ Return("create_part", manufacturer, uid, "PartAlreadyExists")
         /\ UNCHANGED <<registry, now>>
    ELSE LET current_time == now
             part == AeronauticPart(uid, part_number, serial_number, manufacturer,
                                    current_time, manufacturer, "Active", 0, 0,
                                    current_time, document_hashes)
         IN  /\ parts' = MapSet(parts, uid, part)
             /\ Return("create_part", manufacturer, uid, "Ok")
             /\ UNCHANGED <<has_admins, admins, oem_orgs, mro_orgs, now>>

\* get_part that does not show retired parts
get_part_HidesRetired(uid) ==
    /\ IF uid \in DOMAIN parts /\ parts[uid].status # "Retired"
       THEN ReturnValue("get_part", NoCaller, uid, parts[uid])
       ELSE Return("get_part", NoCaller, uid, "PartNotFound")
    /\ UNCHANGED <<registry, now>>

get_part(uid) ==
    /\ IF uid \in DOMAIN parts
       THEN ReturnValue("get_part", NoCaller, uid, parts[uid])
       ELSE Return("get_part", NoCaller, uid, "PartNotFound")
    /\ UNCHANGED <<registry, now>>

\* transfer_ownership without the comparison of lines 252-254
transfer_ownership_NoOwnerCheck(current_owner, new_owner, uid) ==
    IF uid \notin DOMAIN parts
    THEN /\ Return("transfer_ownership", current_owner, uid, "PartNotFound")
         /\ UNCHANGED <<registry, now>>
    ELSE /\ parts' = MapSet(parts, uid, [parts[uid] EXCEPT !.current_owner = new_owner,
                                                          !.last_updated = now])
         /\ Return("transfer_ownership", current_owner, uid, "Ok")
         /\ UNCHANGED <<has_admins, admins, oem_orgs, mro_orgs, now>>

\* transfer_ownership that returns early when the part stays with its owner
transfer_ownership_SkipsSelfTransfer(current_owner, new_owner, uid) ==
    IF uid \notin DOMAIN parts
    THEN /\ Return("transfer_ownership", current_owner, uid, "PartNotFound")
         /\ UNCHANGED <<registry, now>>
    ELSE IF parts[uid].current_owner # current_owner
    THEN /\ Return("transfer_ownership", current_owner, uid, "NotAuthorized")
         /\ UNCHANGED <<registry, now>>
    ELSE IF new_owner = current_owner
    THEN /\ Return("transfer_ownership", current_owner, uid, "Ok")
         /\ UNCHANGED <<registry, now>>
    ELSE /\ parts' = MapSet(parts, uid, [parts[uid] EXCEPT !.current_owner = new_owner,
                                                          !.last_updated = now])
         /\ Return("transfer_ownership", current_owner, uid, "Ok")
         /\ UNCHANGED <<has_admins, admins, oem_orgs, mro_orgs, now>>

transfer_ownership(current_owner, new_owner, uid) ==
    IF uid \notin DOMAIN parts
    THEN /\ Return("transfer_ownership", current_owner, uid, "PartNotFound")
         /\ UNCHANGED <<registry, now>>
    ELSE IF parts[uid].current_owner # current_owner
    THEN /\ Return("transfer_ownership", current_owner, uid, "NotAuthorized")
         /\ UNCHANGED <<registry, now>>
    ELSE LET current_time == now
             updated_part == [parts[uid] EXCEPT !.current_owner = new_owner,
                                                !.last_updated = current_time]
         IN  /\ parts' = MapSet(parts, uid, updated_part)
             /\ Return("transfer_ownership", current_owner, uid, "Ok")
             /\ UNCHANGED <<has_admins, admins, oem_orgs, mro_orgs, now>>

\* update_part_status that also hands the part to the organisation that
\* serviced it
update_part_status_TakesOwnership(authorized_org, uid, new_status, hours, cycles) ==
    IF ensure_is_mro_or_owner(authorized_org, uid) # "Ok"
    THEN /\ Return("update_part_status", authorized_org, uid, ensure_is_mro_or_owner(authorized_org, uid))
         /\ UNCHANGED <<registry, now>>
    ELSE IF uid \notin DOMAIN parts
    THEN /\ Return("update_part_status", authorized_org, uid, "PartNotFound")
         /\ UNCHANGED <<registry, now>>
    ELSE /\ parts' = MapSet(parts, uid, [parts[uid] EXCEPT !.status = new_status,
                                                          !.total_hours = hours,
                                                          !.total_cycles = cycles,
                                                          !.current_owner = authorized_org,
                                                          !.last_updated = now])
         /\ Return("update_part_status", authorized_org, uid, "Ok")
         /\ UNCHANGED <<has_admins, admins, oem_orgs, mro_orgs, now>>

\* update_part_status that never lowers a stored counter
update_part_status_KeepsHigherReading(authorized_org, uid, new_status, hours, cycles) ==
    IF ensure_is_mro_or_owner(authorized_org, uid) # "Ok"
    THEN /\ Return("update_part_status", authorized_org, uid, ensure_is_mro_or_owner(authorized_org, uid))
         /\ UNCHANGED <<registry, now>>
    ELSE IF uid \notin DOMAIN parts
    THEN /\ Return("update_part_status", authorized_org, uid, "PartNotFound")
         /\ UNCHANGED <<registry, now>>
    ELSE LET current_time == now
             Max(a, b) == IF a < b THEN b ELSE a
             updated_part == [parts[uid] EXCEPT !.status = new_status,
                                                !.total_hours = Max(@, hours),
                                                !.total_cycles = Max(@, cycles),
                                                !.last_updated = current_time]
         IN  /\ parts' = MapSet(parts, uid, updated_part)
             /\ Return("update_part_status", authorized_org, uid, "Ok")
             /\ UNCHANGED <<has_admins, admins, oem_orgs, mro_orgs, now>>

\* update_part_status that refuses to touch a retired part
update_part_status_RetiredIsTerminal(authorized_org, uid, new_status, hours, cycles) ==
    IF ensure_is_mro_or_owner(authorized_org, uid) # "Ok"
    THEN /\ Return("update_part_status", authorized_org, uid, ensure_is_mro_or_owner(authorized_org, uid))
         /\ UNCHANGED <<registry, now>>
    ELSE IF uid \notin DOMAIN parts
    THEN /\ Return("update_part_status", authorized_org, uid, "PartNotFound")
         /\ UNCHANGED <<registry, now>>
    ELSE IF parts[uid].status = "Retired"
    THEN /\ Return("update_part_status", authorized_org, uid, "InvalidInput")
         /\ UNCHANGED <<registry, now>>
    ELSE LET current_time == now
             updated_part == [parts[uid] EXCEPT !.status = new_status,
                                                !.total_hours = hours,
                                                !.total_cycles = cycles,
                                                !.last_updated = current_time]
         IN  /\ parts' = MapSet(parts, uid, updated_part)
             /\ Return("update_part_status", authorized_org, uid, "Ok")
             /\ UNCHANGED <<has_admins, admins, oem_orgs, mro_orgs, now>>

update_part_status(authorized_org, uid, new_status, hours, cycles) ==
    IF ensure_is_mro_or_owner(authorized_org, uid) # "Ok"
    THEN /\ Return("update_part_status", authorized_org, uid, ensure_is_mro_or_owner(authorized_org, uid))
         /\ UNCHANGED <<registry, now>>
    ELSE IF uid \notin DOMAIN parts
    THEN /\ Return("update_part_status", authorized_org, uid, "PartNotFound")
         /\ UNCHANGED <<registry, now>>
    ELSE LET current_time == now
             updated_part == [parts[uid] EXCEPT !.status = new_status,
                                                !.total_hours = hours,
                                                !.total_cycles = cycles,
                                                !.last_updated = current_time]
         IN  /\ parts' = MapSet(parts, uid, updated_part)
             /\ Return("update_part_status", authorized_org, uid, "Ok")
             /\ UNCHANGED <<has_admins, admins, oem_orgs, mro_orgs, now>>

\* add_document that keeps the hash already stored under the name
add_document_KeepsFirstHash(authorized_org, uid, document_name, document_hash) ==
    IF ensure_can_add_document(authorized_org, uid) # "Ok"
    THEN /\ Return("add_document", authorized_org, uid, ensure_can_add_document(authorized_org, uid))
         /\ UNCHANGED <<registry, now>>
    ELSE IF uid \notin DOMAIN parts
    THEN /\ Return("add_document", authorized_org, uid, "PartNotFound")
         /\ UNCHANGED <<registry, now>>
    ELSE LET current_time == now
             updated_docs == IF document_name \in DOMAIN parts[uid].document_hashes
                             THEN parts[uid].document_hashes
                             ELSE MapSet(parts[uid].document_hashes,
                                         document_name, document_hash)
             updated_part == [parts[uid] EXCEPT !.document_hashes = updated_docs,
                                                !.last_updated = current_time]
         IN  /\ parts' = MapSet(parts, uid, updated_part)
             /\ Return("add_document", authorized_org, uid, "Ok")
             /\ UNCHANGED <<has_admins, admins, oem_orgs, mro_orgs, now>>

add_document(authorized_org, uid, document_name, document_hash) ==
    IF ensure_can_add_document(authorized_org, uid) # "Ok"
    THEN /\ Return("add_document", authorized_org, uid, ensure_can_add_document(authorized_org, uid))
         /\ UNCHANGED <<registry, now>>
    ELSE IF uid \notin DOMAIN parts
    THEN /\ Return("add_document", authorized_org, uid, "PartNotFound")
         /\ UNCHANGED <<registry, now>>
    ELSE LET current_time == now
             updated_docs == MapSet(parts[uid].document_hashes,
                                    document_name, document_hash)
             updated_part == [parts[uid] EXCEPT !.document_hashes = updated_docs,
                                                !.last_updated = current_time]
         IN  /\ parts' = MapSet(parts, uid, updated_part)
             /\ Return("add_document", authorized_org, uid, "Ok")
             /\ UNCHANGED <<has_admins, admins, oem_orgs, mro_orgs, now>>

\* ------------------------------------------------------------ the queries
\* A Soroban Map iterates in ascending key order; UidOrder lists the
\* modelled uids in that order.
UidOrder == <<"CFM56-5B4-123456", "LEAP-1A-654321">>

\* parts.keys() / the uids visited by parts.iter(), in order
Keys(m) == SelectSeq(UidOrder, LAMBDA u : u \in DOMAIN m)

\* ensure_is_mro that scans the OEM roster
ensure_is_mro_ScansOem(address) ==
    IF \E i \in 1..Len(oem_orgs) : oem_orgs[i].id = address /\ oem_orgs[i].active
    THEN "Ok"
    ELSE "OrgNotRegistered"

ensure_is_mro(address) ==
    IF \E i \in 1..Len(mro_orgs) : mro_orgs[i].id = address /\ mro_orgs[i].active
    THEN "Ok"
    ELSE "OrgNotRegistered"

get_all_part_uids(caller) ==
    /\ IF ensure_is_admin(caller) # "Ok"
       THEN Return("get_all_part_uids", caller, NoUid, ensure_is_admin(caller))
       ELSE ReturnValue("get_all_part_uids", caller, NoUid, Keys(parts))
    /\ UNCHANGED <<registry, now>>

get_all_organizations(caller) ==
    /\ IF ensure_is_admin(caller) # "Ok"
       THEN Return("get_all_organizations", caller, NoUid, ensure_is_admin(caller))
       ELSE ReturnValue("get_all_organizations", caller, NoUid, <<oem_orgs, mro_orgs>>)
    /\ UNCHANGED <<registry, now>>

\* get_global_stats that counts each registered principal once
get_global_stats_CountsPrincipals(caller) ==
    /\ IF ensure_is_admin(caller) # "Ok"
       THEN Return("get_global_stats", caller, NoUid, ensure_is_admin(caller))
       ELSE LET total_parts == Cardinality(DOMAIN parts)
                total_oems == Cardinality({oem_orgs[i].id : i \in 1..Len(oem_orgs)})
                total_mros == Cardinality({mro_orgs[i].id : i \in 1..Len(mro_orgs)})
            IN  ReturnValue("get_global_stats", caller, NoUid,
                            <<total_parts, total_oems, total_mros>>)
    /\ UNCHANGED <<registry, now>>

get_global_stats(caller) ==
    /\ IF ensure_is_admin(caller) # "Ok"
       THEN Return("get_global_stats", caller, NoUid, ensure_is_admin(caller))
       ELSE LET total_parts == Cardinality(DOMAIN parts)
                total_oems == Len(oem_orgs)
                total_mros == Len(mro_orgs)
            IN  ReturnValue("get_global_stats", caller, NoUid,
                            <<total_parts, total_oems, total_mros>>)
    /\ UNCHANGED <<registry, now>>

\* get_my_parts_by_status without the owner filter of the non-admin branch
get_my_parts_by_status_NoOwnerFilter(caller, status) ==
    /\ LET matching_uids == SelectSeq(Keys(parts), LAMBDA u : parts[u].status = status)
       IN  ReturnValue("get_my_parts_by_status", caller, NoUid, matching_uids)
    /\ UNCHANGED <<registry, now>>

get_my_parts_by_status(caller, status) ==
    /\ LET is_admin == ensure_is_admin(caller) = "Ok"
           matching_uids ==
               IF is_admin
               THEN SelectSeq(Keys(parts), LAMBDA u : parts[u].status = status)
               ELSE SelectSeq(Keys(parts), LAMBDA u : /\ parts[u].status = status
                                                      /\ parts[u].current_owner = caller)
       IN  ReturnValue("get_my_parts_by_status", caller, NoUid, matching_uids)
    /\ UNCHANGED <<registry, now>>

get_parts_in_my_maintenance(mro) ==
    /\ IF ensure_is_mro(mro) # "Ok"
       THEN Return("get_parts_in_my_maintenance", mro, NoUid, ensure_is_mro(mro))
       ELSE LET maintenance_uids ==
                    SelectSeq(Keys(parts), LAMBDA u : parts[u].status = "InMaintenance")
            IN  ReturnValue("get_parts_in_my_maintenance", mro, NoUid, maintenance_uids)
    /\ UNCHANGED <<registry, now>>

get_my_part_uids(owner) ==
    /\ LET my_uids == SelectSeq(Keys(parts), LAMBDA u : parts[u].current_owner = owner)
       IN  ReturnValue("get_my_part_uids", owner, NoUid, my_uids)
    /\ UNCHANGED <<registry, now>>

\* get_my_manufactured_parts that lists the parts the caller owns
get_my_manufactured_parts_ListsOwned(manufacturer) ==
    /\ IF ensure_is_oem(manufacturer) # "Ok"
       THEN Return("get_my_manufactured_parts", manufacturer, NoUid, ensure_is_oem(manufacturer))
       ELSE LET manufactured_uids ==
                    SelectSeq(Keys(parts), LAMBDA u : parts[u].current_owner = manufacturer)
            IN  ReturnValue("get_my_manufactured_parts", manufacturer, NoUid, manufactured_uids)
    /\ UNCHANGED <<registry, now>>

get_my_manufactured_parts(manufacturer) ==
    /\ IF ensure_is_oem(manufacturer) # "Ok"
       THEN Return("get_my_manufactured_parts", manufacturer, NoUid, ensure_is_oem(manufacturer))
       ELSE LET manufactured_uids ==
                    SelectSeq(Keys(parts), LAMBDA u : parts[u].manufacturer = manufacturer)
            IN  ReturnValue("get_my_manufactured_parts", manufacturer, NoUid, manufactured_uids)
    /\ UNCHANGED <<registry, now>>

\* get_my_stats that counts Quarantined parts as retired
get_my_stats_QuarantinedIsRetired(owner) ==
    /\ LET owned == SelectSeq(Keys(parts), LAMBDA u : parts[u].current_owner = owner)
           Count(status) == Len(SelectSeq(owned, LAMBDA u : parts[u].status = status))
           total_owned == Len(owned)
           active_parts == Count("Active")
           maintenance_parts == Count("InMaintenance")
           retired_parts == Count("Retired") + Count("Quarantined")
       IN  ReturnValue("get_my_stats", owner, NoUid,
                       <<total_owned, active_parts, maintenance_parts, retired_parts>>)
    /\ UNCHANGED <<registry, now>>

\* The four u32 counters are incremented once per owned part; Count is the
\* number of increments of one counter over the whole iteration.
get_my_stats(owner) ==
    /\ LET owned == SelectSeq(Keys(parts), LAMBDA u : parts[u].current_owner = owner)
           Count(status) == Len(SelectSeq(owned, LAMBDA u : parts[u].status = status))
           total_owned == Len(owned)
           active_parts == Count("Active")
           maintenance_parts == Count("InMaintenance")
           retired_parts == Count("Retired")
       IN  ReturnValue("get_my_stats", owner, NoUid,
                       <<total_owned, active_parts, maintenance_parts, retired_parts>>)
    /\ UNCHANGED <<registry, now>>

\* The ledger closes and its timestamp advances; no call is in progress.
Tick ==
    /\ now < MaxTime
    /\ now' = now + 1
    /\ UNCHANGED <<registry, last, out>>

\* ----------------------------------------------------------- specification
Next ==
    \* addresses are interchangeable: the first initialize names "admin"
    \/ \E admin \in Addresses : (has_admins \/ admin = "admin") /\ initialize(admin)
    \/ \E caller \in Addresses, org \in OrgAddresses, name \in OrgNames, certs \in CertLists :
           register_oem(caller, org, name, certs)
    \/ \E caller \in Addresses, org \in OrgAddresses, name \in OrgNames, certs \in CertLists :
           register_mro(caller, org, name, certs)
    \/ \E m \in Addresses, uid \in Uids, pn \in PartNumbers, sn \in SerialNumbers,
          docs \in DocMaps : create_part(m, uid, pn, sn, docs)
    \/ \E uid \in Uids : get_part(uid)
    \/ \E x, y \in Addresses, uid \in Uids : transfer_ownership(x, y, uid)
    \/ \E p \in Addresses, uid \in Uids, s \in PartStatus, r \in Readings :
           update_part_status(p, uid, s, r[1], r[2])
    \/ \E p \in Addresses, uid \in Uids, n \in DocNames, h \in DocHashes :
           add_document(p, uid, n, h)
    \/ Tick

Spec == Init /\ [][Next]_vars

\* ------------------------------------------ specification: document maps
\* The same contract with one organization address, the document map of
\* the tests at creation, and two names and two hashes for add_document, so
\* that a name can be written again with another hash.
ReportNames == {"initial_cert", "maintenance_report"}

ReportHashes == {"H1", "H2"}

InitialDocs == [n \in {"initial_cert"} |-> "H1"]

DocOrgs == {"oem"}

NextDocs ==
    \/ \E admin \in Addresses : (has_admins \/ admin = "admin") /\ initialize(admin)
    \/ \E caller \in Addresses, org \in DocOrgs, name \in OrgNames, certs \in CertLists :
           register_oem(caller, org, name, certs)
    \/ \E caller \in Addresses, org \in DocOrgs, name \in OrgNames, certs \in CertLists :
           register_mro(caller, org, name, certs)
    \/ \E m \in Addresses, uid \in Uids, pn \in PartNumbers, sn \in SerialNumbers :
           create_part(m, uid, pn, sn, InitialDocs)
    \/ \E uid \in Uids : get_part(uid)
    \/ \E x, y \in Addresses, uid \in Uids : transfer_ownership(x, y, uid)
    \/ \E p \in Addresses, uid \in Uids : update_part_status(p, uid, "InMaintenance", 2, 1)
    \/ \E p \in Addresses, uid \in Uids, n \in ReportNames, h \in ReportHashes :
           add_document(p, uid, n, h)

SpecDocs == Init /\ [][NextDocs]_vars

\* ------------------------------------------------ specification: a fleet
\* The same contract with two parts, one OEM address, one MRO address and
\* the queries; parts are created with the document map of the tests.
FleetUids == {UidOrder[i] : i \in 1..Len(UidOrder)}

FleetOems == {"oem"}

FleetMros == {"airline"}

NextFleet ==
    \/ \E admin \in Addresses : (has_admins \/ admin = "admin") /\ initialize(admin)
    \/ \E caller \in Addresses, org \in FleetOems, name \in OrgNames, certs \in CertLists :
           register_oem(caller, org, name, certs)
    \/ \E caller \in Addresses, org \in FleetMros, name \in OrgNames, certs \in CertLists :
           register_mro(caller, org, name, certs)
    \/ \E m \in Addresses, uid \in FleetUids, pn \in PartNumbers, sn \in SerialNumbers :
           create_part(m, uid, pn, sn, InitialDocs)
    \/ \E uid \in FleetUids : get_part(uid)
    \/ \E x \in Addresses, y \in FleetOems \cup FleetMros, uid \in FleetUids :
           transfer_ownership(x, y, uid)
    \/ \E p \in Addresses, uid \in FleetUids, s \in PartStatus, r \in Readings :
           update_part_status(p, uid, s, r[1], r[2])
    \/ \E p \in Addresses, uid \in FleetUids, n \in DocNames, h \in DocHashes :
           add_document(p, uid, n, h)
    \/ \E caller \in Addresses : get_all_part_uids(caller)
    \/ \E caller \in Addresses : get_all_organizations(caller)
    \/ \E caller \in Addresses : get_global_stats(caller)
    \/ \E caller \in Addresses, s \in PartStatus : get_my_parts_by_status(caller, s)
    \/ \E mro \in Addresses : get_parts_in_my_maintenance(mro)
    \/ \E owner \in Addresses : get_my_part_uids(owner)
    \/ \E manufacturer \in Addresses : get_my_manufactured_parts(manufacturer)
    \/ \E owner \in Addresses : get_my_stats(owner)

SpecFleet == Init /\ [][NextFleet]_vars

\* ------------------------------------------------- vocabulary of the claims
Range(s) == {s[i] : i \in 1..Len(s)}

IsAdmin(p) == p \in Range(admins)

IsActiveOem(p) == \E o \in Range(oem_orgs) : o.id = p /\ o.active = TRUE

IsActiveMro(p) == \E o \in Range(mro_orgs) : o.id = p /\ o.active = TRUE

Exists(uid) == uid \in DOMAIN parts

IsOwner(p, uid) == Exists(uid) /\ parts[uid].current_owner = p

\* the step is a call of `op` (the clock does not move during a call)
Called(op) == ~Tick /\ last'.op = op

TypeOK ==
    /\ has_admins \in BOOLEAN
    /\ now \in 0..MaxTime
    /\ DOMAIN parts \subseteq Uids
    /\ last.ret \in Error \cup {"Ok"}
    /\ last.caller \in Addresses \cup {NoCaller}
    /\ last.uid \in Uids \cup {NoUid}
    /\ \A u \in DOMAIN parts :
           /\ parts[u].status \in PartStatus
           /\ parts[u].document_hashes \in DocMaps
    /\ \A o \in Range(oem_orgs) \cup Range(mro_orgs) : o.org_type \in OrgType

\* ------------------------------------------------------------------ claims

\* C1: on an existing part, transfer_ownership(X, Y, uid) succeeds exactly
\* when X is the part's current_owner at call time; on success current_owner
\* becomes Y and last_updated becomes the current time; on failure the
\* record is unchanged.
C1_TransferAuthorization ==
    [][(Called("transfer_ownership") /\ Exists(last'.uid)) =>
         LET X == last'.caller
             uid == last'.uid
         IN  IF X = parts[uid].current_owner
             THEN /\ last'.ret = "Ok"
                  /\ \A Y \in Addresses :
                        transfer_ownership(X, Y, uid) => parts'[uid].current_owner = Y
                  /\ parts'[uid].last_updated = now
             ELSE /\ last'.ret # "Ok"
                  /\ parts'[uid] = parts[uid]]_vars

\* a transfer has just moved a part away from its manufacturer, at a time
\* later than its creation
C1_Witness ==
    /\ last.op = "transfer_ownership" /\ last.ret = "Ok"
    /\ \E uid \in DOMAIN parts :
          /\ last.uid = uid
          /\ parts[uid].current_owner # parts[uid].manufacturer
          /\ parts[uid].last_updated = now
          /\ parts[uid].last_updated > parts[uid].date_of_manufacture

\* C2: a part's current_owner changes only in a step that is a successful
\* transfer_ownership called by the principal who was current_owner just
\* before the step; no other operation and no other caller changes it.
C2_OnlyOwnerTransfers ==
    [][\A uid \in DOMAIN parts :
         (uid \in DOMAIN parts' /\ parts'[uid].current_owner # parts[uid].current_owner) =>
            /\ last'.op = "transfer_ownership"
            /\ last'.ret = "Ok"
            /\ last'.uid = uid
            /\ last'.caller = parts[uid].current_owner]_vars

\* a transfer by an administrator that is an active OEM and an active MRO
\* has just been refused on a part that has left its manufacturer
C2_Witness ==
    /\ last.op = "transfer_ownership" /\ last.ret = "NotAuthorized"
    /\ IsAdmin(last.caller) /\ IsActiveOem(last.caller) /\ IsActiveMro(last.caller)
    /\ \E uid \in DOMAIN parts :
          /\ last.uid = uid
          /\ parts[uid].current_owner # parts[uid].manufacturer

\* the record create_part stores for its arguments at the current time
Created(m, uid, pn, sn, docs) ==
    [uid |-> uid, part_number |-> pn, serial_number |-> sn, manufacturer |-> m,
     date_of_manufacture |-> now, current_owner |-> m, status |-> "Active",
     total_hours |-> 0, total_cycles |-> 0, last_updated |-> now,
     document_hashes |-> docs]

\* the step is a create_part call for the uid whose create_part has just
\* succeeded
SecondCreate ==
    /\ last.op = "create_part" /\ last.ret = "Ok"
    /\ Called("create_part") /\ last'.uid = last.uid

\* C3 as stated: when create(m1, uid, ...) has succeeded and is directly
\* followed by create(m2, uid, ...), for every principal m2 the second call
\* fails with PartAlreadyExists and the stored record is unchanged.
C3_Original ==
    [][SecondCreate => /\ last'.ret = "PartAlreadyExists"
                       /\ parts' = parts]_vars

\* C3 (amended): when create(m1, uid, ...) has succeeded and is directly
\* followed by create(m2, uid, ...), the second call fails, with
\* PartAlreadyExists when m2 is an active OEM and with NotAnOEM when it is
\* not, and the stored record remains exactly as the first call set it.
C3_DuplicateCreateFails ==
    [][SecondCreate =>
         /\ last'.ret = IF IsActiveOem(last'.caller)
                        THEN "PartAlreadyExists" ELSE "NotAnOEM"
         /\ parts' = parts]_vars

\* a second create has been refused as a duplicate at a later time than the
\* first, and the record is still the one the first call stored
C3_Witness ==
    /\ last.op = "create_part" /\ last.ret = "PartAlreadyExists"
    /\ last.uid \in DOMAIN parts
    /\ LET p == parts[last.uid]
       IN  /\ p.current_owner = p.manufacturer
           /\ p.status = "Active"
           /\ p.last_updated = p.date_of_manufacture
           /\ p.date_of_manufacture < now

\* C4 as stated: create_part fails with NotAnOEM for any principal that is
\* not an active entry of the OEM roster, and succeeds for any principal
\* that is.
C4_Original ==
    [][Called("create_part") =>
         last'.ret = IF IsActiveOem(last'.caller) THEN "Ok" ELSE "NotAnOEM"]_vars

\* C4 (amended): create_part fails with NotAnOEM for any principal that is
\* not an active entry of the OEM roster; for a principal that is, it
\* succeeds when the uid is not yet present and fails with
\* PartAlreadyExists when it is.
C4_OemGating ==
    [][Called("create_part") =>
         last'.ret = IF ~IsActiveOem(last'.caller) THEN "NotAnOEM"
                     ELSE IF Exists(last'.uid) THEN "PartAlreadyExists"
                     ELSE "Ok"]_vars

\* a create by an administrator that is an active MRO has just been refused
\* with NotAnOEM while another principal is an active OEM
C4_Witness ==
    /\ last.op = "create_part" /\ last.ret = "NotAnOEM"
    /\ IsAdmin(last.caller) /\ IsActiveMro(last.caller)
    /\ oem_orgs # <<>>

\* C5: a successful create_part(manufacturer, uid, part_number,
\* serial_number, documents) at time T stores under uid a record with
\* manufacturer = current_owner = the caller, status Active, both counters
\* 0, date_of_manufacture = last_updated = T and the three remaining fields
\* equal to the arguments.
C5_CreateStoresRecord ==
    [][(Called("create_part") /\ last'.ret = "Ok") =>
         LET m == last'.caller
             uid == last'.uid
         IN  /\ uid \in DOMAIN parts'
             /\ \E pn \in PartNumbers, sn \in SerialNumbers, docs \in DocMaps :
                   create_part(m, uid, pn, sn, docs)
             /\ \A pn \in PartNumbers, sn \in SerialNumbers, docs \in DocMaps :
                   create_part(m, uid, pn, sn, docs) =>
                      parts'[uid] = Created(m, uid, pn, sn, docs)]_vars

\* a part has just been created, with a document, after the clock advanced
C5_Witness ==
    /\ last.op = "create_part" /\ last.ret = "Ok"
    /\ last.uid \in DOMAIN parts
    /\ parts[last.uid].date_of_manufacture = now /\ now > 0
    /\ parts[last.uid].document_hashes # EmptyMap
    /\ parts[last.uid].last_updated = now

\* C6: whenever create_part, transfer_ownership, update_part_status,
\* add_document, register_oem or register_mro returns an error, the admin
\* set, both rosters and every part record are exactly what they were
\* before the call.
C6_FailedCallChangesNothing ==
    [][(/\ \E op \in {"create_part", "transfer_ownership", "update_part_status",
                       "add_document", "register_oem", "register_mro"} : Called(op)
        /\ last'.ret # "Ok")
       => UNCHANGED registry]_vars

\* a call of an administrator-only operation has just been refused in a
\* registry that holds organisations and a part that has changed hands
C6_Witness ==
    /\ last.op \in {"register_oem", "register_mro"} /\ last.ret = "NotAuthorized"
    /\ oem_orgs # <<>>
    /\ \E uid \in DOMAIN parts : parts[uid].current_owner # parts[uid].manufacturer

\* C7: on an existing part, update_part_status(p, uid, ...) succeeds exactly
\* when p is an active MRO or the part's current_owner; every other caller
\* gets NotAuthorized.
C7_UpdateAuthorization ==
    [][(Called("update_part_status") /\ Exists(last'.uid)) =>
         last'.ret = IF IsActiveMro(last'.caller) \/ IsOwner(last'.caller, last'.uid)
                     THEN "Ok" ELSE "NotAuthorized"]_vars

\* an update by the manufacturer, an active OEM, has just been refused on a
\* part that it has transferred away
C7_Witness ==
    /\ last.op = "update_part_status" /\ last.ret = "NotAuthorized"
    /\ \E uid \in DOMAIN parts :
          /\ last.uid = uid
          /\ last.caller = parts[uid].manufacturer
          /\ IsActiveOem(last.caller)
          /\ parts[uid].current_owner # parts[uid].manufacturer

\* C8: on an existing part, add_document(p, uid, name, hash) succeeds
\* exactly when p is an active MRO, an active OEM (any, not only the part's
\* manufacturer) or the part's current_owner; every other caller gets
\* NotAuthorized.
C8_DocumentAuthorization ==
    [][(Called("add_document") /\ Exists(last'.uid)) =>
         last'.ret = IF \/ IsActiveMro(last'.caller)
                        \/ IsActiveOem(last'.caller)
                        \/ IsOwner(last'.caller, last'.uid)
                     THEN "Ok" ELSE "NotAuthorized"]_vars

\* a document has just been attached by an active OEM that neither made nor
\* owns the part and is no MRO
C8_Witness ==
    /\ last.op = "add_document" /\ last.ret = "Ok"
    /\ \E uid \in DOMAIN parts :
          /\ last.uid = uid
          /\ parts[uid].document_hashes # EmptyMap
          /\ IsActiveOem(last.caller)
          /\ ~IsActiveMro(last.caller)
          /\ last.caller # parts[uid].manufacturer
          /\ last.caller # parts[uid].current_owner

PartOps == {"get_part", "transfer_ownership", "update_part_status", "add_document"}

\* the caller of the last call passes that operation's access check
PassesAccessCheck(op, p, uid) ==
    CASE op = "transfer_ownership" -> IsOwner(p, uid)
      [] op = "update_part_status" -> IsActiveMro(p) \/ IsOwner(p, uid)
      [] op = "add_document" -> IsActiveMro(p) \/ IsActiveOem(p) \/ IsOwner(p, uid)
      [] OTHER -> TRUE

\* C9: get_part, transfer_ownership, update_part_status and add_document on
\* a uid that is not in the store return PartNotFound whoever calls;
\* they return NotAuthorized only when the part exists and the caller fails
\* the operation's access check.
C9_MissingPartIsNotFound ==
    [][(\E op \in PartOps : Called(op)) =>
         /\ ~Exists(last'.uid) => last'.ret = "PartNotFound"
         /\ last'.ret = "NotAuthorized" =>
               /\ Exists(last'.uid)
               /\ ~PassesAccessCheck(last'.op, last'.caller, last'.uid)]_vars

\* an update by an active MRO of a part that does not exist has just been
\* answered with PartNotFound
C9_Witness ==
    /\ last.op = "update_part_status" /\ last.ret = "PartNotFound"
    /\ last.uid \notin DOMAIN parts
    /\ IsActiveMro(last.caller)

\* C10: a uid that is in the part store stays in it, and the record's uid,
\* manufacturer, part_number, serial_number and date_of_manufacture never
\* change.
C10_PartsArePermanent ==
    [][\A uid \in DOMAIN parts :
         /\ uid \in DOMAIN parts'
         /\ parts'[uid].uid = parts[uid].uid
         /\ parts'[uid].manufacturer = parts[uid].manufacturer
         /\ parts'[uid].part_number = parts[uid].part_number
         /\ parts'[uid].serial_number = parts[uid].serial_number
         /\ parts'[uid].date_of_manufacture = parts[uid].date_of_manufacture]_vars

\* a part has changed hands, has been retired with a reading and has been
\* given a document, all after the time of its creation
C10_Witness ==
    \E uid \in DOMAIN parts :
       /\ parts[uid].uid = uid
       /\ parts[uid].current_owner # parts[uid].manufacturer
       /\ parts[uid].status = "Retired"
       /\ parts[uid].total_hours > 0
       /\ parts[uid].document_hashes # EmptyMap
       /\ parts[uid].last_updated > parts[uid].date_of_manufacture

\* C11: with a clock that never goes backwards, every part's last_updated
\* never decreases and is never below date_of_manufacture, and every
\* successful transfer_ownership, update_part_status or add_document sets
\* the part's last_updated to the current time, also when the call changes
\* nothing else.
C11_LastUpdatedMonotone ==
    [][/\ now' >= now
       /\ \A uid \in DOMAIN parts \cap DOMAIN parts' :
             parts'[uid].last_updated >= parts[uid].last_updated
       /\ \A uid \in DOMAIN parts' :
             parts'[uid].last_updated >= parts'[uid].date_of_manufacture
       /\ (/\ \E op \in {"transfer_ownership", "update_part_status", "add_document"} :
                Called(op)
           /\ last'.ret = "Ok")
          => /\ last'.uid \in DOMAIN parts'
             /\ parts'[last'.uid].last_updated = now]_vars

\* an owner has just transferred a part to itself, at a time later than the
\* part's creation, and the part carries the time of that call
C11_Witness ==
    /\ last.op = "transfer_ownership" /\ last.ret = "Ok"
    /\ last.uid \in DOMAIN parts
    /\ parts[last.uid].current_owner = last.caller
    /\ parts[last.uid].last_updated = now
    /\ now > parts[last.uid].date_of_manufacture

\* the step is register_oem (kind "OEM") or register_mro (kind "MRO") by the
\* caller for some organisation, and `roster` is the roster of that kind
Registers(kind, p, org, name, certs) ==
    IF kind = "OEM" THEN register_oem(p, org, name, certs)
                    ELSE register_mro(p, org, name, certs)

RosterOf(kind) == IF kind = "OEM" THEN oem_orgs ELSE mro_orgs

OtherKind(kind) == IF kind = "OEM" THEN "MRO" ELSE "OEM"

\* C12: register_oem / register_mro by a principal that is not an
\* administrator fails with NotAuthorized and leaves both rosters unchanged;
\* by an administrator it appends exactly one entry, active and of the
\* matching kind, to the end of that kind's roster and keeps the earlier
\* entries in order, also when the principal is already registered.
C12_RegisterAppends ==
    [][\A kind \in {"OEM", "MRO"} :
         Called(IF kind = "OEM" THEN "register_oem" ELSE "register_mro") =>
            IF ~IsAdmin(last'.caller)
            THEN /\ last'.ret = "NotAuthorized"
                 /\ UNCHANGED <<oem_orgs, mro_orgs>>
            ELSE /\ last'.ret = "Ok"
                 /\ RosterOf(OtherKind(kind))' = RosterOf(OtherKind(kind))
                 /\ Len(RosterOf(kind)') = Len(RosterOf(kind)) + 1
                 /\ SubSeq(RosterOf(kind)', 1, Len(RosterOf(kind))) = RosterOf(kind)
                 /\ \E org \in OrgAddresses, name \in OrgNames, certs \in CertLists :
                       /\ Registers(kind, last'.caller, org, name, certs)
                       /\ RosterOf(kind)'[Len(RosterOf(kind)')] =
                             [id |-> org, name |-> name, org_type |-> kind,
                              certificates |-> certs, active |-> TRUE]]_vars

\* the same principal has just been registered a second time as an MRO and
\* the roster holds both entries
C12_Witness ==
    /\ last.op = "register_mro" /\ last.ret = "Ok"
    /\ Len(mro_orgs) = 2
    /\ mro_orgs[1].id = mro_orgs[2].id
    /\ mro_orgs[2].org_type = "MRO" /\ mro_orgs[2].active

\* C13 as stated: initialize succeeds on a fresh registry and fails with
\* AlreadyInitialized when called a second time, leaving admin set, rosters
\* and parts unchanged.
C13_Original ==
    [][Called("initialize") =>
         IF ~has_admins
         THEN last'.ret = "Ok"
         ELSE /\ last'.ret = "AlreadyInitialized"
              /\ UNCHANGED registry]_vars

\* C13 (amended): initialize succeeds on a fresh registry and fails with
\* InvalidInput when called a second time, with the same or a different
\* admin, leaving admin set, rosters and parts unchanged.
C13_SecondInitializeFails ==
    [][Called("initialize") =>
         IF ~has_admins
         THEN /\ last'.ret = "Ok"
              /\ has_admins'
         ELSE /\ last'.ret = "InvalidInput"
              /\ UNCHANGED registry]_vars

\* a second initialize, naming a different admin, has just been refused in a
\* registry that holds an organisation and a part
C13_Witness ==
    /\ last.op = "initialize" /\ last.ret = "InvalidInput"
    /\ has_admins /\ last.caller \notin Range(admins)
    /\ oem_orgs # <<>>
    /\ parts # EmptyMap

\* C14: after a successful initialize(a) the administrator set is exactly
\* {a} in every later state: the admin check passes for p exactly when
\* p = a, and no step adds or removes an administrator.
C14_AdminSetIsFixed ==
    [][/\ (Called("initialize") /\ last'.ret = "Ok") => admins' = <<last'.caller>>
       /\ has_admins => (has_admins' /\ admins' = admins)
       /\ has_admins' =>
             /\ Len(admins') = 1
             /\ \A p \in Addresses :
                   (ensure_is_admin(p)' = "Ok") <=> (p = admins'[1])]_vars

\* an administrator-only call by an organisation that is not the
\* administrator has just been refused, after organisations were registered
\* and a part left the administrator's hands
C14_Witness ==
    /\ has_admins /\ Len(admins) = 1
    /\ last.op = "register_mro" /\ last.ret = "NotAuthorized"
    /\ IsActiveOem(last.caller) /\ last.caller # admins[1]
    /\ \E uid \in DOMAIN parts : parts[uid].current_owner # admins[1]

\* C16: a successful update_part_status(caller, uid, s, h, c) stores s, h
\* and c exactly as supplied, whatever the previous status and counters
\* (nothing is accumulated and a lower reading is accepted), and leaves the
\* part's current_owner, manufacturer and document map, and every other
\* part, unchanged.
C16_UpdateStoresAsSupplied ==
    [][(Called("update_part_status") /\ last'.ret = "Ok") =>
          LET uid == last'.uid
          IN  /\ DOMAIN parts' = DOMAIN parts
              /\ \A s \in PartStatus, r \in Readings :
                     update_part_status(last'.caller, uid, s, r[1], r[2]) =>
                         /\ parts'[uid].status = s
                         /\ parts'[uid].total_hours = r[1]
                         /\ parts'[uid].total_cycles = r[2]
              /\ parts'[uid].current_owner = parts[uid].current_owner
              /\ parts'[uid].manufacturer = parts[uid].manufacturer
              /\ parts'[uid].document_hashes = parts[uid].document_hashes
              /\ \A other \in DOMAIN parts \ {uid} : parts'[other] = parts[other]]_vars

\* a part that is not with its manufacturer and carries a document has been
\* retired with counters 0, 0 by its owner, next to another part that keeps
\* counters 2, 1 from an earlier update
C16_Witness ==
    /\ last.op = "update_part_status" /\ last.ret = "Ok"
    /\ DOMAIN parts = FleetUids
    /\ parts[last.uid].status = "Retired"
    /\ parts[last.uid].total_hours = 0 /\ parts[last.uid].total_cycles = 0
    /\ parts[last.uid].current_owner = last.caller
    /\ parts[last.uid].current_owner # parts[last.uid].manufacturer
    /\ DOMAIN parts[last.uid].document_hashes # {}
    /\ \E other \in FleetUids \ {last.uid} :
           /\ parts[other].status = "InMaintenance"
           /\ parts[other].total_hours = 2 /\ parts[other].total_cycles = 1

\* C17: calls are single steps on the shared store, and in every
\* interleaving of calls by several principals two create_part calls by
\* active OEMs for the same uid never both succeed: a create by an active
\* OEM succeeds exactly when the uid is absent, the record then holds that
\* call's values, it stays in the store, and a later create for the uid
\* returns PartAlreadyExists and leaves the record as the first call set it.
C17_OneCreatePerUid ==
    [][/\ \A uid \in DOMAIN parts : uid \in DOMAIN parts'
       /\ (Called("create_part") /\ IsActiveOem(last'.caller)) =>
             LET uid == last'.uid
             IN  IF Exists(uid)
                 THEN /\ last'.ret = "PartAlreadyExists"
                      /\ parts' = parts
                 ELSE /\ last'.ret = "Ok"
                      /\ DOMAIN parts' = DOMAIN parts \cup {uid}
                      /\ parts'[uid].manufacturer = last'.caller
                      /\ parts'[uid].current_owner = last'.caller
                      /\ \A other \in DOMAIN parts : parts'[other] = parts[other]]_vars

\* an active OEM has just lost the race for a uid that another active OEM
\* created: its create was answered with PartAlreadyExists
C17_Witness ==
    /\ last.op = "create_part" /\ last.ret = "PartAlreadyExists"
    /\ last.uid \in DOMAIN parts
    /\ IsActiveOem(last.caller)
    /\ IsActiveOem(parts[last.uid].manufacturer)
    /\ parts[last.uid].manufacturer # last.caller
    /\ parts[last.uid].current_owner = parts[last.uid].manufacturer

\* C15: a successful add_document(caller, uid, N, H) leaves exactly one
\* entry for N, holding H, whatever was stored under N before (so adding N
\* with H1 and then with H2 leaves N -> H2); the entries under every other
\* name are unchanged, and writing the name and hash already stored leaves
\* the document map unchanged.
C15_AddDocumentOverwrites ==
    [][(Called("add_document") /\ last'.ret = "Ok") =>
          LET uid == last'.uid
              old == parts[uid].document_hashes
              new == parts'[uid].document_hashes
          IN  \A n \in ReportNames, h \in ReportHashes :
                  add_document(last'.caller, uid, n, h) =>
                      /\ DOMAIN new = DOMAIN old \cup {n}
                      /\ new[n] = h
                      /\ \A m \in DOMAIN old \ {n} : new[m] = old[m]
                      /\ (n \in DOMAIN old /\ old[n] = h) => new = old]_vars

\* the name stored with H1 at creation has been written again with H2,
\* next to an entry under another name
C15_Witness ==
    /\ last.op = "add_document" /\ last.ret = "Ok"
    /\ last.uid \in DOMAIN parts
    /\ DOMAIN parts[last.uid].document_hashes = ReportNames
    /\ parts[last.uid].document_hashes["initial_cert"] = "H2"
    /\ parts[last.uid].document_hashes["maintenance_report"] = "H1"

\* C18: get_all_part_uids, get_all_organizations and get_global_stats fail
\* with NotAuthorized for every caller that is not an admin. For an admin,
\* get_all_part_uids returns exactly the uids ever created, each once, and
\* get_global_stats returns (number of parts, number of OEM roster entries,
\* number of MRO roster entries), an entry registered twice counting twice.
C18_AdminQueries ==
    [][\A op \in {"get_all_part_uids", "get_all_organizations", "get_global_stats"} :
          Called(op) =>
              IF ~IsAdmin(last'.caller)
              THEN last'.ret = "NotAuthorized" /\ out' = Unit
              ELSE /\ last'.ret = "Ok"
                   /\ (op = "get_all_part_uids") =>
                          /\ Range(out') = DOMAIN parts
                          /\ Len(out') = Cardinality(DOMAIN parts)
                   /\ (op = "get_global_stats") =>
                          /\ Len(out') = 3
                          /\ out'[1] = Cardinality(DOMAIN parts)
                          /\ out'[2] = Cardinality(DOMAIN oem_orgs)
                          /\ out'[3] = Cardinality(DOMAIN mro_orgs)]_vars

\* the admin reads the statistics of a registry with two parts and one OEM
\* principal registered twice: the OEM count is 2
C18_Witness ==
    /\ last.op = "get_global_stats" /\ last.ret = "Ok"
    /\ IsAdmin(last.caller)
    /\ out = <<2, 2, 0>>
    /\ Cardinality(DOMAIN parts) = 2
    /\ Cardinality({o.id : o \in Range(oem_orgs)}) = 1

\* C19: get_my_parts_by_status(caller, s) never fails on authorization. For
\* an admin it returns every uid whose status is s; for any other caller it
\* returns only the uids whose status is s and whose current_owner is the
\* caller.
C19_PartsByStatus ==
    [][Called("get_my_parts_by_status") =>
          /\ last'.ret = "Ok"
          /\ \A s \in PartStatus :
                 get_my_parts_by_status(last'.caller, s) =>
                     LET expected ==
                             {u \in DOMAIN parts :
                                 /\ parts[u].status = s
                                 /\ IsAdmin(last'.caller) \/ parts[u].current_owner = last'.caller}
                     IN  /\ Range(out') = expected
                         /\ Len(out') = Cardinality(expected)]_vars

\* a caller that is not an admin gets one of its own parts while another
\* owner's part with the same status is left out
C19_Witness ==
    /\ last.op = "get_my_parts_by_status" /\ last.ret = "Ok"
    /\ ~IsAdmin(last.caller)
    /\ Len(out) = 1
    /\ out[1] \in DOMAIN parts
    /\ parts[out[1]].current_owner = last.caller
    /\ \E other \in DOMAIN parts \ {out[1]} :
           /\ parts[other].status = parts[out[1]].status
           /\ parts[other].current_owner # last.caller

\* C20: get_parts_in_my_maintenance(mro) fails with OrgNotRegistered when
\* mro is not an active entry of the MRO roster; otherwise it returns every
\* uid whose status is InMaintenance, whoever owns the part or set the
\* status.
C20_PartsInMaintenance ==
    [][Called("get_parts_in_my_maintenance") =>
          IF ~IsActiveMro(last'.caller)
          THEN last'.ret = "OrgNotRegistered" /\ out' = Unit
          ELSE LET expected == {u \in DOMAIN parts : parts[u].status = "InMaintenance"}
               IN  /\ last'.ret = "Ok"
                   /\ Range(out') = expected
                   /\ Len(out') = Cardinality(expected)]_vars

\* an active MRO gets a part in maintenance that it does not own, while the
\* part with another status is left out
C20_Witness ==
    /\ last.op = "get_parts_in_my_maintenance" /\ last.ret = "Ok"
    /\ IsActiveMro(last.caller)
    /\ Len(out) = 1
    /\ out[1] \in DOMAIN parts
    /\ parts[out[1]].status = "InMaintenance"
    /\ parts[out[1]].current_owner # last.caller
    /\ \E other \in DOMAIN parts : parts[other].status = "Active"

\* C21: get_my_stats(owner) returns (total, active, maintenance, retired):
\* total is the number of parts whose current_owner is owner, and the three
\* counts are the numbers of those parts with status Active, InMaintenance
\* and Retired. Quarantined parts count in total only, so total = active +
\* maintenance + retired + the number of owned Quarantined parts.
C21_MyStats ==
    [][Called("get_my_stats") =>
          LET owner == last'.caller
              Owned(status) == {u \in DOMAIN parts : /\ parts[u].current_owner = owner
                                                     /\ parts[u].status = status}
          IN  /\ last'.ret = "Ok"
              /\ Len(out') = 4
              /\ out'[1] = Cardinality({u \in DOMAIN parts : parts[u].current_owner = owner})
              /\ out'[2] = Cardinality(Owned("Active"))
              /\ out'[3] = Cardinality(Owned("InMaintenance"))
              /\ out'[4] = Cardinality(Owned("Retired"))
              /\ out'[1] = out'[2] + out'[3] + out'[4] + Cardinality(Owned("Quarantined"))]_vars

\* an owner of two parts, one of them Quarantined and the other in
\* maintenance, reads its statistics: the total exceeds the three counts
C21_Witness ==
    /\ last.op = "get_my_stats" /\ last.ret = "Ok"
    /\ out = <<2, 0, 1, 0>>
    /\ \E u \in DOMAIN parts : /\ parts[u].current_owner = last.caller
                               /\ parts[u].status = "Quarantined"

\* the uids a principal owns, and the uids a principal manufactured
OwnerView(p) == {u \in DOMAIN parts : parts[u].current_owner = p}

ManufacturedView(m) == {u \in DOMAIN parts : parts[u].manufacturer = m}

\* C22: get_my_part_uids(p) returns exactly the uids whose current_owner is
\* p; get_my_manufactured_parts(m) fails with NotAnOEM unless m is an active
\* OEM and otherwise returns exactly the uids whose manufacturer is m. A
\* successful transfer from X to another principal Y takes the uid out of
\* X's owner view and into Y's, and no step takes a uid out of its
\* manufacturer's manufactured view.
C22_OwnerAndManufacturerViews ==
    [][/\ Called("get_my_part_uids") =>
              /\ last'.ret = "Ok"
              /\ Range(out') = OwnerView(last'.caller)
              /\ Len(out') = Cardinality(OwnerView(last'.caller))
       /\ Called("get_my_manufactured_parts") =>
              IF ~IsActiveOem(last'.caller)
              THEN last'.ret = "NotAnOEM" /\ out' = Unit
              ELSE /\ last'.ret = "Ok"
                   /\ Range(out') = ManufacturedView(last'.caller)
                   /\ Len(out') = Cardinality(ManufacturedView(last'.caller))
       /\ (Called("transfer_ownership") /\ last'.ret = "Ok") =>
              LET uid == last'.uid
                  X == last'.caller
                  Y == parts'[uid].current_owner
                  OwnerViewAfter(p) == {u \in DOMAIN parts' : parts'[u].current_owner = p}
              IN  /\ uid \in OwnerView(X)
                  /\ uid \in OwnerViewAfter(Y)
                  /\ (X # Y) => (uid \notin OwnerViewAfter(X) /\ uid \notin OwnerView(Y))
       /\ \A m \in Addresses : \A u \in ManufacturedView(m) :
              u \in DOMAIN parts' /\ parts'[u].manufacturer = m]_vars

\* an active OEM lists what it manufactured and gets two uids, one it still
\* owns and one it has transferred away
C22_Witness ==
    /\ last.op = "get_my_manufactured_parts" /\ last.ret = "Ok"
    /\ Len(out) = 2
    /\ \E u \in Range(out) : parts[u].current_owner # last.caller
    /\ \E u \in Range(out) : parts[u].current_owner = last.caller
    /\ \A u \in Range(out) : parts[u].manufacturer = last.caller

\* get_part and the listing and statistics queries
ReadOps ==
    {"get_part", "get_all_part_uids", "get_all_organizations", "get_global_stats",
     "get_my_part_uids", "get_my_manufactured_parts", "get_my_parts_by_status",
     "get_parts_in_my_maintenance", "get_my_stats"}

\* C23: reads are public and pure. get_part(uid) takes no caller and
\* returns the stored record of every existing uid (PartNotFound for a
\* missing one); get_part and every listing or statistics query, whether it
\* succeeds or fails, leaves the admin set, both rosters and every part
\* record, last_updated included, unchanged.
C23_ReadsArePublicAndPure ==
    [][(~Tick /\ last'.op \in ReadOps) =>
          /\ has_admins' = has_admins /\ admins' = admins
          /\ oem_orgs' = oem_orgs /\ mro_orgs' = mro_orgs
          /\ parts' = parts
          /\ (last'.op = "get_part") =>
                 /\ last'.caller = NoCaller
                 /\ IF Exists(last'.uid)
                    THEN last'.ret = "Ok" /\ out' = parts[last'.uid]
                    ELSE last'.ret = "PartNotFound" /\ out' = Unit]_vars

\* the record of a retired part that has left its manufacturer is read
C23_Witness ==
    /\ last.op = "get_part" /\ last.ret = "Ok"
    /\ last.uid \in DOMAIN parts
    /\ out = parts[last.uid]
    /\ out.status = "Retired"
    /\ out.current_owner # out.manufacturer

\* C24: in every reachable state the manufacturer of every part is the id
\* of an entry of the OEM roster with active = true: no step shortens a
\* roster or changes an entry it holds (so no active flag is cleared), and
\* a part is only created by a caller that passes the OEM check.
C24_ManufacturerStaysResolvable ==
    [][/\ \A i \in DOMAIN oem_orgs : i \in DOMAIN oem_orgs' /\ oem_orgs'[i] = oem_orgs[i]
       /\ \A i \in DOMAIN mro_orgs : i \in DOMAIN mro_orgs' /\ mro_orgs'[i] = mro_orgs[i]
       /\ \A u \in DOMAIN parts' :
              \E i \in DOMAIN oem_orgs' : /\ oem_orgs'[i].id = parts'[u].manufacturer
                                          /\ oem_orgs'[i].active = TRUE
       /\ (Called("create_part") /\ last'.ret = "Ok") => IsActiveOem(last'.caller)]_vars

\* a part has left its manufacturer, and the OEM roster has since grown by
\* an entry for another principal: the manufacturer's entry is still first
C24_Witness ==
    /\ Len(oem_orgs) = 2
    /\ oem_orgs[1].id # oem_orgs[2].id
    /\ last.op = "register_oem" /\ last.ret = "Ok"
    /\ \E u \in DOMAIN parts :
           /\ parts[u].manufacturer = oem_orgs[1].id
           /\ oem_orgs[1].active = TRUE
           /\ parts[u].current_owner # parts[u].manufacturer

\* the operations that fail while the registry is not initialized
InertOps ==
    {"register_oem", "register_mro", "create_part", "transfer_ownership",
     "update_part_status", "add_document", "get_part", "get_all_part_uids",
     "get_all_organizations", "get_global_stats"}

\* the error each of them returns
InertAnswer(op) ==
    CASE op \in {"register_oem", "register_mro"} -> "NotAuthorized"
      [] op = "create_part" -> "NotAnOEM"
      [] op \in {"transfer_ownership", "update_part_status", "add_document", "get_part"} ->
             "PartNotFound"
      [] op \in {"get_all_part_uids", "get_all_organizations", "get_global_stats"} ->
             "NotAuthorized"

\* C25: before initialize has succeeded the registry is inert. register_oem
\* and register_mro fail with NotAuthorized, create_part with NotAnOEM,
\* transfer_ownership, update_part_status, add_document and get_part with
\* PartNotFound, the admin-only queries with NotAuthorized; no call but
\* initialize changes the state, so a state without a successful initialize
\* holds no admin, no organization and no part.
C25_InertBeforeInitialize ==
    [][/\ (~has_admins) =>
              /\ admins = <<>> /\ oem_orgs = <<>> /\ mro_orgs = <<>> /\ parts = EmptyMap
              /\ \A op \in InertOps :
                     Called(op) => last'.ret = InertAnswer(op) /\ out' = Unit
              /\ (~Called("initialize")) => registry' = registry
       /\ (~has_admins') =>
              /\ admins' = <<>> /\ oem_orgs' = <<>> /\ mro_orgs' = <<>> /\ parts' = EmptyMap]_vars

\* an address asks for a registration on the registry that nobody has
\* initialized, and is refused
C25_Witness ==
    /\ ~has_admins
    /\ last.op = "register_oem" /\ last.ret = "NotAuthorized"
    /\ oem_orgs = <<>> /\ parts = EmptyMap

\* update_part_status(p, uid, s, ...) can be called now, succeeds and
\* leaves the part with status s
CanSetStatus(p, uid, s) ==
    ENABLED (/\ update_part_status(p, uid, s, 0, 0)
             /\ last'.ret = "Ok"
             /\ parts'[uid].status = s)

\* C26: part status has no lifecycle restriction. In every reachable state
\* and for every part, whatever its status (Retired and Quarantined
\* included), the current owner and every active MRO can move the part to
\* every status with update_part_status, so no status is terminal; and the
\* status of a part changes only in a successful update_part_status for it.
C26_NoStatusLifecycle ==
    /\ [](\A uid \in DOMAIN parts, p \in Addresses, s \in PartStatus :
              (IsOwner(p, uid) \/ IsActiveMro(p)) => CanSetStatus(p, uid, s))
    /\ [][\A uid \in DOMAIN parts :
              (uid \in DOMAIN parts' /\ parts'[uid].status # parts[uid].status) =>
                  /\ Called("update_part_status")
                  /\ last'.ret = "Ok"
                  /\ last'.uid = uid]_vars

\* an active MRO that does not own the part has just quarantined it, and
\* the owner can put it back to Active
C26_Witness ==
    /\ last.op = "update_part_status" /\ last.ret = "Ok"
    /\ last.uid \in DOMAIN parts
    /\ parts[last.uid].status = "Quarantined"
    /\ IsActiveMro(last.caller)
    /\ ~IsOwner(last.caller, last.uid)
    /\ CanSetStatus(parts[last.uid].current_owner, last.uid, "Active")
====
